---- MODULE Spec2Model ----
(***************************************************************************)
(* PPE compliance decision engine of src/app.py (process_image).           *)
(*                                                                         *)
(* One behaviour is one call of process_image on the detector's result     *)
(* list.  The three loops of the function are modelled one iteration per   *)
(* step: the classification loop over results.boxes, the per-person loop,  *)
(* and the final decision block that builds the summary.                   *)
(*                                                                         *)
(* Floating point.  The code computes four quantities in double precision: *)
(*   iou(a, b) > 0.1            modelled as an exact fraction in units of  *)
(*                              1e-6 (the epsilon of the denominator);     *)
(*   int(0.35 * height)         modelled as 35*height/100 truncated        *)
(*                              toward zero (equal for |height| < 180);    *)
(*   int((c / 3) * 100)         modelled as floor(100*c/3), c in 0..3;     *)
(*   int((s / (3*N)) * 100)     modelled as floor(100*s/(3*N)) (equal for  *)
(*                              N < 50).                                   *)
(***************************************************************************)
EXTENDS Integers, Sequences, FiniteSets

VARIABLES
    pc,               \* position in process_image
    results,          \* results.boxes: sequence of [label, box]
    box_i,            \* index of the next box of the classification loop
    persons,          \* list of person boxes
    ppe_items,        \* list of <<label, box>>
    violations,       \* list of <<label, box>>
    mask_items,       \* boxes of the ppe_items labelled mask
    helmet_yes, helmet_no,
    vest_yes, vest_no,
    mask_yes, mask_no,
    person_i,         \* index of the next person of the person loop
    assessed,         \* per processed person: the locals of its iteration
    compliance_score,
    risk_level,
    recommendation,
    summary

vars == <<pc, results, box_i, persons, ppe_items, violations, mask_items,
          helmet_yes, helmet_no, vest_yes, vest_no, mask_yes, mask_no,
          person_i, assessed, compliance_score, risk_level, recommendation, summary>>

(***************************************************************************)
(* Bounds of the checked inputs.                                           *)
(***************************************************************************)
MaxDet == 4      \* longest detection list of the scenario specification
MaxN == 11       \* most persons of the scoring specification
MaxHX == 2       \* largest x coordinate of the helmet specification
MaxHY == 10      \* largest y coordinate of the helmet specification
MaxC == 3        \* largest coordinate of the overlap specification

(***************************************************************************)
(* Constants of the program.                                               *)
(***************************************************************************)
PPE_CLASSES == {"hardhat", "safetyvest", "mask"}
VIOLATION_CLASSES == {"nomask"}

\* 1e-6 is one unit when areas are counted in millionths.
Micro == 1000000

Max(x, y) == IF x >= y THEN x ELSE y
Min(x, y) == IF x <= y THEN x ELSE y

\* int(x) of Python for the fraction n/d with d > 0: truncation toward zero.
TruncDiv(n, d) == IF n >= 0 THEN n \div d ELSE -((-n) \div d)

(***************************************************************************)
(* iou(a, b): the quotient inter / (areaA + areaB - inter + 1e-6), kept as *)
(* the exact fraction num/den in millionths.                               *)
(***************************************************************************)
iouUnclamped(a, b) ==
    LET xA == Max(a[1], b[1])
        yA == Max(a[2], b[2])
        xB == Min(a[3], b[3])
        yB == Min(a[4], b[4])
        inter == (xB - xA) * (yB - yA)
        areaA == (a[3] - a[1]) * (a[4] - a[2])
        areaB == (b[3] - b[1]) * (b[4] - b[2])
    IN  [num |-> inter * Micro, den |-> (areaA + areaB - inter) * Micro + 1]

iou(a, b) ==
    LET xA == Max(a[1], b[1])
        yA == Max(a[2], b[2])
        xB == Min(a[3], b[3])
        yB == Min(a[4], b[4])
        inter == Max(0, xB - xA) * Max(0, yB - yA)
        areaA == (a[3] - a[1]) * (a[4] - a[2])
        areaB == (b[3] - b[1]) * (b[4] - b[2])
    IN  [num |-> inter * Micro, den |-> (areaA + areaB - inter) * Micro + 1]

\* r > 0.1 for the fraction r = num/den, den # 0.
ExceedsThreshold(r) ==
    IF r.den > 0 THEN 10 * r.num > r.den ELSE 10 * r.num < r.den

(***************************************************************************)
(* Helmet test of one item against one person box.                         *)
(***************************************************************************)
HeadLimit(person) == person[2] + TruncDiv(35 * (person[4] - person[2]), 100)

CentroidInHeadClosed(person, hbox) ==
    LET hc_x == (hbox[1] + hbox[3]) \div 2
        hc_y == (hbox[2] + hbox[4]) \div 2
    IN  /\ person[1] <= hc_x /\ hc_x <= person[3]
        /\ person[2] <= hc_y /\ hc_y <= HeadLimit(person)

CentroidInHead(person, hbox) ==
    LET hc_x == (hbox[1] + hbox[3]) \div 2
        hc_y == (hbox[2] + hbox[4]) \div 2
    IN  /\ person[1] < hc_x /\ hc_x < person[3]
        /\ person[2] < hc_y /\ hc_y < HeadLimit(person)

\* Index in items of the hardhat at which the scan breaks, 0 when the scan
\* runs to the end of the list.
RECURSIVE HelmetScan(_, _, _)
HelmetScan(person, items, k) ==
    IF k > Len(items) THEN 0
    ELSE IF items[k][1] = "hardhat" /\ CentroidInHead(person, items[k][2])
         THEN k
         ELSE HelmetScan(person, items, k + 1)

HasVest(person, items) ==
    \E k \in 1..Len(items) :
        items[k][1] = "safetyvest" /\ ExceedsThreshold(iou(person, items[k][2]))

HasMask(person, mitems) ==
    \E k \in 1..Len(mitems) : ExceedsThreshold(iou(person, mitems[k]))

HasNomask(person, viols) ==
    \E k \in 1..Len(viols) :
        viols[k][1] = "nomask" /\ ExceedsThreshold(iou(person, viols[k][2]))

(***************************************************************************)
(* Per-person classification.                                              *)
(***************************************************************************)
MaskStateMaskFirst(has_nomask, has_mask) ==
    IF has_mask THEN "MASK"
    ELSE IF has_nomask THEN "NO_MASK"
    ELSE "UNKNOWN"

MaskState(has_nomask, has_mask) ==
    IF has_nomask THEN "NO_MASK"
    ELSE IF has_mask THEN "MASK"
    ELSE "UNKNOWN"

\* bool used as an integer in  helmet_yes += has_helmet
BoolInt(flag) == IF flag THEN 1 ELSE 0

\* <<increment of mask_yes, increment of mask_no>>
MaskIncsSkipUnknown(mask_state) ==
    IF mask_state = "MASK" THEN <<1, 0>>
    ELSE IF mask_state = "NO_MASK" THEN <<0, 1>>
    ELSE <<0, 0>>

MaskIncs(mask_state) ==
    IF mask_state = "MASK" THEN <<1, 0>> ELSE <<0, 1>>

Confidence(has_helmet, has_vest, mask_state) ==
    LET confidence == BoolInt(has_helmet) + BoolInt(has_vest)
                      + BoolInt(mask_state = "MASK")
    IN  (confidence * 100) \div 3

UnsafeUnknownOk(has_helmet, has_vest, mask_state) ==
    ~has_helmet \/ ~has_vest \/ mask_state = "NO_MASK"

Unsafe(has_helmet, has_vest, mask_state) ==
    ~has_helmet \/ ~has_vest \/ mask_state # "MASK"

Color(unsafe) == IF unsafe THEN <<0, 0, 255>> ELSE <<0, 255, 0>>

\* f"UNSAFE | {confidence}%" as <<verdict, confidence>>
LabelText(unsafe, confidence) ==
    IF unsafe THEN <<"UNSAFE", confidence>> ELSE <<"SAFE", confidence>>

(***************************************************************************)
(* Decision engine.                                                        *)
(***************************************************************************)
ComplianceScoreEmptyFull(n, hy, vy, my) ==
    IF n > 0 THEN (100 * (hy + vy + my)) \div (3 * n) ELSE 100

ComplianceScore(n, hy, vy, my) ==
    IF n > 0 THEN (100 * (hy + vy + my)) \div (3 * n) ELSE 0

RiskLevelStrict(score) ==
    IF score > 85 THEN "LOW"
    ELSE IF score > 60 THEN "MEDIUM"
    ELSE "HIGH"

RiskLevel(score) ==
    IF score >= 85 THEN "LOW"
    ELSE IF score >= 60 THEN "MEDIUM"
    ELSE "HIGH"

Recommendation(score) ==
    IF score >= 85
    THEN "Site is compliant. Maintain existing safety protocols."
    ELSE IF score >= 60
    THEN "Partial compliance detected. Increase supervision and PPE enforcement."
    ELSE "Critical safety risk identified. Immediate corrective action required."

(***************************************************************************)
(* process_image, entered with the detector's result list dets.            *)
(***************************************************************************)
Entry(dets) ==
    /\ pc = "classify"
    /\ results = dets
    /\ box_i = 1
    /\ persons = <<>>
    /\ ppe_items = <<>>
    /\ violations = <<>>
    /\ mask_items = <<>>
    /\ helmet_yes = 0 /\ helmet_no = 0
    /\ vest_yes = 0 /\ vest_no = 0
    /\ mask_yes = 0 /\ mask_no = 0
    /\ person_i = 1
    /\ assessed = <<>>
    /\ compliance_score = 0
    /\ risk_level = ""
    /\ recommendation = ""
    /\ summary = [total |-> 0, helmet |-> <<0, 0>>, vest |-> <<0, 0>>,
                  mask |-> <<0, 0>>, compliance |-> 0, risk |-> "",
                  recommendation |-> ""]

\* One iteration of  for box in results.boxes
ClassifyBox ==
    /\ pc = "classify"
    /\ box_i <= Len(results)
    /\ LET label == results[box_i].label
           box == results[box_i].box
       IN  /\ persons' = IF label = "person"
                         THEN Append(persons, box) ELSE persons
           /\ ppe_items' = IF label # "person" /\ label \in PPE_CLASSES
                           THEN Append(ppe_items, <<label, box>>)
                           ELSE ppe_items
           /\ violations' = IF /\ label # "person"
                               /\ label \notin PPE_CLASSES
                               /\ label \in VIOLATION_CLASSES
                            THEN Append(violations, <<label, box>>)
                            ELSE violations
    /\ box_i' = box_i + 1
    /\ UNCHANGED <<pc, results, mask_items, helmet_yes, helmet_no, vest_yes,
                   vest_no, mask_yes, mask_no, person_i, assessed, compliance_score,
                   risk_level, recommendation, summary>>

RECURSIVE MaskBoxes(_)
MaskBoxes(items) ==
    IF items = <<>> THEN <<>>
    ELSE IF Head(items)[1] = "mask"
         THEN <<Head(items)[2]>> \o MaskBoxes(Tail(items))
         ELSE MaskBoxes(Tail(items))

\* End of the classification loop: counters and mask_items.
StartPersons ==
    /\ pc = "classify"
    /\ box_i > Len(results)
    /\ helmet_yes' = 0 /\ helmet_no' = 0
    /\ vest_yes' = 0 /\ vest_no' = 0
    /\ mask_yes' = 0 /\ mask_no' = 0
    /\ mask_items' = MaskBoxes(ppe_items)
    /\ person_i' = 1
    /\ pc' = "persons"
    /\ UNCHANGED <<results, box_i, persons, ppe_items, violations, assessed,
                   compliance_score, risk_level, recommendation, summary>>

\* One iteration of  for px1, py1, px2, py2 in persons
ProcessPerson ==
    /\ pc = "persons"
    /\ person_i <= Len(persons)
    /\ LET person == persons[person_i]
           helmet_item == HelmetScan(person, ppe_items, 1)
           has_helmet == helmet_item # 0
           has_vest == HasVest(person, ppe_items)
           has_mask == HasMask(person, mask_items)
           has_nomask == HasNomask(person, violations)
           mask_state == MaskState(has_nomask, has_mask)
           confidence == Confidence(has_helmet, has_vest, mask_state)
           unsafe == Unsafe(has_helmet, has_vest, mask_state)
       IN  /\ helmet_yes' = helmet_yes + BoolInt(has_helmet)
           /\ helmet_no' = helmet_no + BoolInt(~has_helmet)
           /\ vest_yes' = vest_yes + BoolInt(has_vest)
           /\ vest_no' = vest_no + BoolInt(~has_vest)
           /\ mask_yes' = mask_yes + MaskIncs(mask_state)[1]
           /\ mask_no' = mask_no + MaskIncs(mask_state)[2]
           /\ assessed' = Append(assessed,
                  [box |-> person,
                   helmet_item |-> helmet_item,
                   has_helmet |-> has_helmet,
                   has_vest |-> has_vest,
                   has_mask |-> has_mask,
                   has_nomask |-> has_nomask,
                   mask_state |-> mask_state,
                   confidence |-> confidence,
                   unsafe |-> unsafe,
                   color |-> Color(unsafe),
                   label_text |-> LabelText(unsafe, confidence)])
    /\ person_i' = person_i + 1
    /\ UNCHANGED <<pc, results, box_i, persons, ppe_items, violations, mask_items,
                   compliance_score, risk_level, recommendation, summary>>

\* The decision engine and the summary, after the last person.
Decide ==
    /\ pc = "persons"
    /\ person_i > Len(persons)
    /\ LET score == ComplianceScore(Len(persons), helmet_yes, vest_yes, mask_yes)
       IN  /\ compliance_score' = score
           /\ risk_level' = RiskLevel(score)
           /\ recommendation' = Recommendation(score)
           /\ summary' = [total |-> Len(persons),
                          helmet |-> <<helmet_yes, helmet_no>>,
                          vest |-> <<vest_yes, vest_no>>,
                          mask |-> <<mask_yes, mask_no>>,
                          compliance |-> score,
                          risk |-> RiskLevel(score),
                          recommendation |-> Recommendation(score)]
    /\ pc' = "done"
    /\ UNCHANGED <<results, box_i, persons, ppe_items, violations, mask_items,
                   helmet_yes, helmet_no, vest_yes, vest_no, mask_yes, mask_no,
                   person_i, assessed>>

Next == ClassifyBox \/ StartPersons \/ ProcessPerson \/ Decide

(***************************************************************************)
(* Scenario specification: detection lists over the boxes of the worked    *)
(* scenarios (one tenth of their pixel size), a second person away from    *)
(* the items, a helmet below the head band and an unrecognised class.      *)
(***************************************************************************)
Det(label, box) == [label |-> label, box |-> box]

ScenarioDets ==
    { Det("person", <<0, 0, 10, 20>>),
      Det("person", <<10, 0, 14, 10>>),
      Det("hardhat", <<3, 0, 7, 4>>),
      Det("hardhat", <<3, 10, 7, 14>>),
      Det("safetyvest", <<0, 10, 10, 20>>),
      Det("mask", <<0, 0, 10, 4>>),
      Det("nomask", <<0, 0, 10, 6>>),
      Det("nohardhat", <<3, 0, 7, 4>>) }

SeqsUpTo(S, n) == UNION { [1..k -> S] : k \in 0..n }

Init == \E dets \in SeqsUpTo(ScenarioDets, MaxDet) : Entry(dets)

Spec == Init /\ [][Next]_vars

(***************************************************************************)
(* Helmet specification: one person and one helmet-class item over a grid  *)
(* tall enough for a head band whose limit is not a whole pixel.           *)
(***************************************************************************)
HelmetPersonBoxes ==
    { <<x1, y1, x2, y2>> : x1 \in 0..1, y1 \in 0..1,
                           x2 \in 0..MaxHX, y2 \in 0..MaxHY }

HelmetItemBoxes ==
    { bx \in (0..MaxHX) \X (0..MaxHY) \X (0..MaxHX) \X (0..MaxHY) :
        bx[1] <= bx[3] /\ bx[2] <= bx[4] }

InitHelmet ==
    \E pb \in HelmetPersonBoxes, hb \in HelmetItemBoxes :
        Entry(<<Det("person", pb), Det("hardhat", hb)>>)

SpecHelmet == InitHelmet /\ [][Next]_vars

(***************************************************************************)
(* Overlap specification: one person and one item of an overlap-tested     *)
(* class, over every rectangle of a small grid, the degenerate ones        *)
(* (zero or negative width or height) included.                            *)
(***************************************************************************)
IouPersonBoxes ==
    { <<x1, y1, x2, y2>> : x1 \in 0..1, y1 \in 0..1,
                           x2 \in 0..MaxC, y2 \in 0..MaxC }

IouItemBoxes == (0..MaxC) \X (0..MaxC) \X (0..MaxC) \X (0..MaxC)

InitIou ==
    \E pb \in IouPersonBoxes, ib \in IouItemBoxes,
       lbl \in {"safetyvest", "mask", "nomask"} :
        Entry(<<Det("person", pb), Det(lbl, ib)>>)

SpecIou == InitIou /\ [][Next]_vars

(***************************************************************************)
(* Scoring specification: n persons side by side, the first h of them with *)
(* a helmet on the head, the first v with a vest and the first m with a    *)
(* mask, so that every combination of the three counters occurs.           *)
(***************************************************************************)
ScorePerson(i) == Det("person", <<3 * i, 0, 3 * i + 2, 6>>)
ScoreHelmet(i) == Det("hardhat", <<3 * i, 0, 3 * i + 2, 2>>)
ScoreVest(i) == Det("safetyvest", <<3 * i, 2, 3 * i + 2, 6>>)
ScoreMask(i) == Det("mask", <<3 * i, 0, 3 * i + 2, 2>>)

ScoreScene(n, h, v, m) ==
    [i \in 1..n |-> ScorePerson(i)] \o [i \in 1..h |-> ScoreHelmet(i)]
        \o [i \in 1..v |-> ScoreVest(i)] \o [i \in 1..m |-> ScoreMask(i)]

InitScore ==
    \E n \in 0..MaxN : \E h \in 0..n, v \in 0..n, m \in 0..n :
        Entry(ScoreScene(n, h, v, m))

SpecScore == InitScore /\ [][Next]_vars

(***************************************************************************)
(* Properties.                                                             *)
(***************************************************************************)
Assessed == 1..Len(assessed)

CountAssessed(P(_)) == Cardinality({ i \in Assessed : P(assessed[i]) })

IsHelmeted(r) == r.has_helmet
IsVested(r) == r.has_vest
IsMasked(r) == r.mask_state = "MASK"

\* C1: each processed person adds one to exactly one counter of each pair, so
\* after every prefix of the person loop the three pairs each sum to the
\* number of persons processed, and in the summary to the number of
\* detections labelled person.
C1_CounterPairsSum ==
    /\ helmet_yes + helmet_no = Len(assessed)
    /\ vest_yes + vest_no = Len(assessed)
    /\ mask_yes + mask_no = Len(assessed)
    /\ helmet_yes = CountAssessed(IsHelmeted)
    /\ vest_yes = CountAssessed(IsVested)
    /\ mask_yes = CountAssessed(IsMasked)
    /\ pc = "persons" => Len(assessed) = person_i - 1
    /\ pc = "done" =>
          /\ Len(assessed) = Len(persons)
          /\ summary.total =
                Cardinality({ k \in 1..Len(results) : results[k].label = "person" })
          /\ summary.helmet[1] + summary.helmet[2] = summary.total
          /\ summary.vest[1] + summary.vest[2] = summary.total
          /\ summary.mask[1] + summary.mask[2] = summary.total

C1_Witness ==
    /\ pc = "done"
    /\ summary.total = 2
    /\ summary.helmet = <<1, 1>>
    /\ summary.mask[2] = 2

\* C2: a person is labelled SAFE exactly when a helmet, a vest and mask state
\* MASK are all present, and UNSAFE otherwise; mask state UNKNOWN or NO_MASK
\* is never SAFE.
C2_VerdictAllThree ==
    \A i \in Assessed :
        LET r == assessed[i]
        IN  /\ r.label_text[1] \in {"SAFE", "UNSAFE"}
            /\ r.label_text[1] = "SAFE" <=>
                   (r.has_helmet /\ r.has_vest /\ r.mask_state = "MASK")
            /\ r.unsafe <=> r.label_text[1] = "UNSAFE"
            /\ r.color = IF r.label_text[1] = "SAFE"
                         THEN <<0, 255, 0>> ELSE <<0, 0, 255>>
            /\ r.mask_state \in {"UNKNOWN", "NO_MASK"} => r.label_text[1] = "UNSAFE"

C2_Witness ==
    \E i \in Assessed :
        /\ assessed[i].has_helmet /\ assessed[i].has_vest
        /\ assessed[i].mask_state = "UNKNOWN"
        /\ assessed[i].label_text[1] = "UNSAFE"

\* C3: the mask state of a person is NO_MASK when a no-mask marker overlaps
\* the person box by more than 0.1, even if a mask item does too; otherwise
\* MASK when a mask item overlaps by more than 0.1; otherwise UNKNOWN; only
\* MASK is counted in mask_yes.
NomaskOverlaps(pb) ==
    \E k \in 1..Len(violations) :
        violations[k][1] = "nomask"
        /\ ExceedsThreshold(iou(pb, violations[k][2]))

MaskOverlaps(pb) ==
    \E k \in 1..Len(ppe_items) :
        ppe_items[k][1] = "mask" /\ ExceedsThreshold(iou(pb, ppe_items[k][2]))

C3_MaskTriState ==
    /\ \A i \in Assessed :
          LET r == assessed[i]
          IN  /\ r.mask_state \in {"NO_MASK", "MASK", "UNKNOWN"}
              /\ NomaskOverlaps(r.box) => r.mask_state = "NO_MASK"
              /\ ~NomaskOverlaps(r.box) /\ MaskOverlaps(r.box)
                    => r.mask_state = "MASK"
              /\ ~NomaskOverlaps(r.box) /\ ~MaskOverlaps(r.box)
                    => r.mask_state = "UNKNOWN"
    /\ mask_yes = CountAssessed(IsMasked)
    /\ mask_no = Len(assessed) - CountAssessed(IsMasked)

C3_Witness ==
    \E i \in Assessed :
        /\ NomaskOverlaps(assessed[i].box)
        /\ MaskOverlaps(assessed[i].box)
        /\ assessed[i].mask_state = "NO_MASK"
        /\ mask_no >= 1

Matched(r) == BoolInt(r.has_helmet) + BoolInt(r.has_vest)
              + BoolInt(r.mask_state = "MASK")

\* round(100 * n / d) to the nearest integer, d > 0, n >= 0
RoundPct(n, d) == (200 * n + d) \div (2 * d)

\* C4: the confidence of a person is 100 * matched / 3 rounded to the nearest
\* integer: 0, 33, 67 or 100.
C4_ConfidenceRounded ==
    \A i \in Assessed :
        /\ assessed[i].confidence = RoundPct(Matched(assessed[i]), 3)
        /\ assessed[i].confidence \in {0, 33, 67, 100}

\* C5: with N > 0 persons the compliance score is
\* 100 * (helmet_yes + vest_yes + mask_yes) / (3 * N) rounded to the nearest
\* integer.
C5_ComplianceRounded ==
    pc = "done" /\ Len(persons) > 0 =>
        compliance_score =
            RoundPct(helmet_yes + vest_yes + mask_yes, 3 * Len(persons))

\* C6: the compliance score is an integer of 0..100; without persons the
\* summary has total 0, compliance 0 and risk HIGH.
C6_ScoreRange ==
    pc = "done" =>
        /\ compliance_score \in 0..100
        /\ summary.compliance = compliance_score
        /\ Len(persons) = 0 =>
              /\ summary.total = 0
              /\ summary.compliance = 0
              /\ summary.risk = "HIGH"

C6_Witness ==
    /\ pc = "done"
    /\ Len(persons) = 0
    /\ Len(ppe_items) > 0
    /\ summary.compliance = 0

TierRank(tier) == IF tier = "HIGH" THEN 0 ELSE IF tier = "MEDIUM" THEN 1 ELSE 2

\* C7: the risk tier is LOW for a score of 85 or more, MEDIUM for 60..84 and
\* HIGH below 60; no lower score has a better tier; each tier carries its one
\* recommendation.
C7_RiskTier ==
    pc = "done" =>
        /\ risk_level = summary.risk
        /\ recommendation = summary.recommendation
        /\ compliance_score >= 85 => risk_level = "LOW"
        /\ compliance_score >= 60 /\ compliance_score < 85 => risk_level = "MEDIUM"
        /\ compliance_score < 60 => risk_level = "HIGH"
        /\ \A s \in 0..compliance_score :
              TierRank(RiskLevel(s)) <= TierRank(risk_level)
        /\ risk_level = "LOW" => recommendation =
              "Site is compliant. Maintain existing safety protocols."
        /\ risk_level = "MEDIUM" => recommendation =
              "Partial compliance detected. Increase supervision and PPE enforcement."
        /\ risk_level = "HIGH" => recommendation =
              "Critical safety risk identified. Immediate corrective action required."

C7_Witness ==
    /\ pc = "done"
    /\ compliance_score = 85
    /\ risk_level = "LOW"

\* The centroid of hb, not truncated, strictly inside the head region of pb
\* whose lower limit top + 0.35 * height is not truncated either.
ExactCentroidInHead(pb, hb) ==
    /\ 2 * pb[1] < hb[1] + hb[3] /\ hb[1] + hb[3] < 2 * pb[3]
    /\ 2 * pb[2] < hb[2] + hb[4]
    /\ 10 * (hb[2] + hb[4]) < 20 * pb[2] + 7 * (pb[4] - pb[2])

\* C8: a person has a helmet exactly when some helmet-class item has its
\* exact centroid strictly inside the exact head region.
C8_HelmetExactCentroid ==
    \A i \in Assessed :
        assessed[i].has_helmet <=>
            \E k \in 1..Len(ppe_items) :
                /\ ppe_items[k][1] = "hardhat"
                /\ ExactCentroidInHead(assessed[i].box, ppe_items[k][2])

\* The exact centroid of hb lies on one of the four bounds of the head region.
OnHeadBound(pb, hb) ==
    \/ hb[1] + hb[3] = 2 * pb[1]
    \/ hb[1] + hb[3] = 2 * pb[3]
    \/ hb[2] + hb[4] = 2 * pb[2]
    \/ 10 * (hb[2] + hb[4]) = 20 * pb[2] + 7 * (pb[4] - pb[2])

\* C9: the helmet item that sets has_helmet for a person never has its
\* centroid on a bound of that person's head region.
C9_BoundNotAttributed ==
    \A i \in Assessed :
        assessed[i].has_helmet =>
            ~OnHeadBound(assessed[i].box, ppe_items[assessed[i].helmet_item][2])

C9_Witness ==
    \E i \in Assessed : \E k \in 1..Len(ppe_items) :
        LET pb == assessed[i].box
            hb == ppe_items[k][2]
        IN  /\ ppe_items[k][1] = "hardhat"
            /\ pb[4] > pb[2]
            /\ 2 * pb[1] < hb[1] + hb[3] /\ hb[1] + hb[3] < 2 * pb[3]
            /\ 10 * (hb[2] + hb[4]) = 20 * pb[2] + 7 * (pb[4] - pb[2])
            /\ ~assessed[i].has_helmet

Degenerate(bx) == bx[3] <= bx[1] \/ bx[4] <= bx[2]

\* The boxes of the items of class lbl in list items.
BoxesOf(items, lbl) ==
    { items[k][2] : k \in { j \in 1..Len(items) : items[j][1] = lbl } }

\* C10: when the person box or the item box is degenerate, iou has
\* intersection 0 over a non-zero denominator and is not above 0.1, so a vest,
\* mask or no-mask attribution always comes from a pair of proper boxes.
C10_DegenerateNoOverlap ==
    \A i \in Assessed :
        LET r == assessed[i]
            tested == BoxesOf(ppe_items, "safetyvest")
                      \cup BoxesOf(ppe_items, "mask")
                      \cup BoxesOf(violations, "nomask")
        IN  /\ \A ib \in tested :
                  Degenerate(r.box) \/ Degenerate(ib) =>
                      /\ iou(r.box, ib).num = 0
                      /\ iou(r.box, ib).den # 0
                      /\ ~ExceedsThreshold(iou(r.box, ib))
            /\ r.has_vest => \E ib \in BoxesOf(ppe_items, "safetyvest") :
                  ~Degenerate(r.box) /\ ~Degenerate(ib)
            /\ r.has_mask => \E ib \in BoxesOf(ppe_items, "mask") :
                  ~Degenerate(r.box) /\ ~Degenerate(ib)
            /\ r.has_nomask => \E ib \in BoxesOf(violations, "nomask") :
                  ~Degenerate(r.box) /\ ~Degenerate(ib)

C10_Witness ==
    \E i \in Assessed : \E ib \in BoxesOf(ppe_items, "safetyvest") :
        LET pb == assessed[i].box
        IN  /\ pb[3] < pb[1] /\ pb[4] < pb[2]
            /\ ib[1] <= pb[3] /\ ib[2] <= pb[4]
            /\ pb[1] <= ib[3] /\ pb[2] <= ib[4]
            /\ ~assessed[i].has_vest

====
